---- MODULE Spec2Model ----
(***************************************************************************)
(* Quote pipeline of SarosDlmm (src/src/main.rs): SarosDlmm::new reads the *)
(* pair account once, SarosDlmm::quote fetches chain state through the RPC *)
(* client, resolves the transfer fees, and sequences the fee calculator    *)
(* and the swap engine per swap mode.                                      *)
(*                                                                         *)
(* The fee calculator, the swap engine, the bin-array merge and the        *)
(* address helpers live in the saros_sdk crate, which main.rs only calls;  *)
(* they are written here from their contracts in spec.md (sections 4.1,    *)
(* 4.2, 4.3 and 6).                                                        *)
(***************************************************************************)
EXTENDS Integers, Sequences, FiniteSets, TLC

VARIABLES
    dlmm,       \* the SarosDlmm value: program_id, pool, pair (main.rs:24-29)
    built,      \* history: the SarosDlmm value as SarosDlmm::new returned it
    chainPair,  \* the pair account as the RPC node holds it now
    last,       \* the quote call that has returned and is still held by the caller
    prev,       \* history: the fee selection of the quote call before `last`
    feeArgs,    \* fee calculator inputs (fee round-trip specification)
    feeRes      \* fee calculator outputs (fee round-trip specification)

vars == <<dlmm, built, chainPair, last, prev, feeArgs, feeRes>>

(***************************************************************************)
(* Bounds                                                                  *)
(***************************************************************************)
\* Stand-in for u64::MAX: amounts are u64, sums above it overflow.
MaxU64 == 2000000
\* Bin-array indexes the pair's active bin may fall in: 0..MaxBinArrayIndex.
MaxBinArrayIndex == 1
\* How many provider stages may fail in one quote call.
MaxFailures == 1
\* Net amounts 0..MaxNet are tried exhaustively by the fee round trip.
MaxNet == 120

\* Bins per bin array (saros_sdk); bin_array_index = active_id / BIN_ARRAY_SIZE.
BIN_ARRAY_SIZE == 256
\* Basis-point denominator of the transfer-fee rate.
MAX_FEE_BASIS_POINTS == 10000

Min(a, b) == IF a <= b THEN a ELSE b

\* floor(a * b / d) and ceil(a * b / d), computed without forming a * b:
\* with a = q * d + r, a * b / d = q * b + r * b / d.
FloorMulDiv(a, b, d) == (a \div d) * b + ((a % d) * b) \div d
CeilMulDiv(a, b, d) == (a \div d) * b + ((a % d) * b + d - 1) \div d

(***************************************************************************)
(* Fixed-point fee calculator (spec.md 4.1)                                *)
(***************************************************************************)
\* A mint's fee config at an epoch: "no fee", or (rate in bps, maximum fee).
NoFee == [some |-> FALSE, bps |-> 0, cap |-> 0]
FeeCfg(b, c) == [some |-> TRUE, bps |-> b, cap |-> c]

FeeOk(a, f) == [ok |-> TRUE, amount |-> a, fee |-> f]
FeeErr == [ok |-> FALSE, amount |-> 0, fee |-> 0]

\* The rate-based fee before the cap: ceil(amount * rate_bps / 10000).
RateFee(cfg, amount) == CeilMulDiv(amount, cfg.bps, MAX_FEE_BASIS_POINTS)

\* compute_transfer_fee(fee_config, amount) -> (amount_after_fee, fee_charged).
\* The product of a u64 amount and a rate fits the double-width intermediate,
\* so the overflow error needs an operand outside u64.
compute_transfer_fee(cfg, amount) ==
    IF ~cfg.some \/ cfg.bps = 0 THEN FeeOk(amount, 0)
    ELSE IF amount > MaxU64 THEN FeeErr
    ELSE LET fee == Min(RateFee(cfg, amount), cfg.cap)
         IN  FeeOk(amount - fee, fee)

\* The naive inverse: net / (1 - rate), rounded down.
NaiveGross(cfg, net) ==
    FloorMulDiv(net, MAX_FEE_BASIS_POINTS, MAX_FEE_BASIS_POINTS - cfg.bps)

\* The naive inverse would produce a fee above the cap.
CapSaturated(cfg, net) == RateFee(cfg, NaiveGross(cfg, net)) > cfg.cap

\* Faulty variant: the fee is taken on the net amount instead of inverting the rate.
GrossByFeeOnNet(cfg, net) ==
    IF ~cfg.some \/ cfg.bps = 0 THEN FeeOk(net, 0)
    ELSE LET gross == net + Min(RateFee(cfg, net), cfg.cap)
         IN  IF gross > MaxU64 THEN FeeErr ELSE FeeOk(gross, gross - net)

\* compute_transfer_amount_for_expected_output(fee_config, desired_net_amount)
\*   -> (gross_amount_required, fee_charged).
compute_transfer_amount_for_expected_output(cfg, net) ==
    IF ~cfg.some \/ cfg.bps = 0 THEN FeeOk(net, 0)
    ELSE LET gross == IF CapSaturated(cfg, net) THEN net + cfg.cap
                      ELSE NaiveGross(cfg, net)
         IN  IF gross > MaxU64 THEN FeeErr ELSE FeeOk(gross, gross - net)

(***************************************************************************)
(* Records and external capabilities                                       *)
(***************************************************************************)
Mints == {"X", "Y", "Z"}
SwapModes == {"ExactIn", "ExactOut"}

ActiveIds == {k * BIN_ARRAY_SIZE + (k % 2) : k \in 0..MaxBinArrayIndex}

\* The Pair account: the two mints are fixed at pool creation, the active
\* bin moves with every swap on chain.
PairOf(active) ==
    [token_mint_x |-> "X", token_mint_y |-> "Y", active_id |-> active]

\* Pair::bin_array_index.
bin_array_index(pair) == pair.active_id \div BIN_ARRAY_SIZE

\* helper::get_bin_array_lower / get_bin_array_upper: the program address
\* of the bin array holding the active bin, and of the next one.
get_bin_array_lower(index, pool, program_id) ==
    [pool |-> pool, program_id |-> program_id, index |-> index]
get_bin_array_upper(index, pool, program_id) ==
    [pool |-> pool, program_id |-> program_id, index |-> index + 1]

\* helper::is_swap_for_y.
is_swap_for_y(input_mint, token_mint_x) == input_mint = token_mint_x

\* BinArrayPair::merge: the upper array must start right after the lower.
merge(lower, upper) ==
    IF upper.index = lower.index + 1
    THEN [ok |-> TRUE, lower |-> lower.index, upper |-> upper.index]
    ELSE [ok |-> FALSE, lower |-> lower.index, upper |-> upper.index]

\* The stages of quote that can return an error, in the order of the code.
FetchStages ==
    << "get_slot", "get_block_time", "get_account_mint_x",
       "get_account_mint_y", "get_epoch_info", "get_account_bin_lower",
       "get_account_bin_upper", "unpack_bin_lower", "unpack_bin_upper",
       "merge", "token_transfer_fee" >>

ExactInStages == << "fee_in", "swap", "fee_out" >>
ExactOutStages == << "gross_out", "swap", "gross_in", "fee_out" >>

StageOrder(mode) ==
    FetchStages \o (IF mode = "ExactIn" THEN ExactInStages ELSE ExactOutStages)

FetchStageSet == {FetchStages[i] : i \in 1..Len(FetchStages)}

\* The error kind a failed stage returns (spec.md 7).
ErrorKind(stage) ==
    CASE stage \in {"get_slot", "get_block_time", "get_account_mint_x",
                    "get_account_mint_y", "get_epoch_info",
                    "get_account_bin_lower", "get_account_bin_upper"}
            -> "StateFetchError"
      [] stage \in {"unpack_bin_lower", "unpack_bin_upper",
                    "token_transfer_fee"} -> "DeserializationError"
      [] stage = "merge" -> "NonAdjacentBinArraysError"
      [] stage = "swap" -> "InsufficientLiquidityError"
      [] OTHER -> "ArithmeticError"

\* What the provider answers in one call: `bad` names the requests it fails
\* (or answers with malformed bytes; for "merge": with a bin array that is
\* not the next one).  The bin array stored at an address carries the index
\* the address was derived from.
BinArrayAt(address, stage, bad) ==
    [index |-> IF stage = "get_account_bin_upper" /\ "merge" \in bad
               THEN address.index + 1 ELSE address.index]

StageFails(stage, bad, lower, upper) ==
    IF stage = "merge"
    THEN ~merge(BinArrayAt(lower, "get_account_bin_lower", bad),
                BinArrayAt(upper, "get_account_bin_upper", bad)).ok
    ELSE stage \in bad

\* Faulty variant: the epoch request's error is swallowed (unwrap_or_default).
TryDefaultEpoch(stage, failed) == failed /\ stage # "get_epoch_info"

\* The `?` operator: a failed stage makes quote return that stage's error.
Try(stage, failed) == failed

Entry(stage, failed) == [stage |-> stage, ok |-> ~failed]

\* Lines 74-100: the fetches, unpacks, merge and fee resolution in order;
\* the log ends at the first stage whose error `?` returns.
RECURSIVE RunFetch(_, _, _, _)
RunFetch(i, bad, lower, upper) ==
    IF i > Len(FetchStages) THEN << >>
    ELSE LET stage == FetchStages[i]
             failed == StageFails(stage, bad, lower, upper)
         IN  IF Try(stage, failed) THEN << Entry(stage, failed) >>
             ELSE << Entry(stage, failed) >>
                      \o RunFetch(i + 1, bad, lower, upper)

\* The log's last stage made quote return its error.
Aborted(log) == Len(log) > 0 /\ Try(log[Len(log)].stage, ~log[Len(log)].ok)

(***************************************************************************)
(* Swap engine (spec.md 6) and the two swap-mode branches of quote         *)
(***************************************************************************)
\* What the engine answers for the arguments it is given: an error, or
\* (result_amount, amm_fee) and the bin the walk ended in.
NoAnswer == [ok |-> FALSE, amount |-> 0, fee |-> 0, active_id |-> 0]
Answer(a, f, id) == [ok |-> TRUE, amount |-> a, fee |-> f, active_id |-> id]

EngineArgs(pair, bin_array, amount, swap_for_y, swap_mode) ==
    [pair |-> pair, bin_array |-> bin_array, amount |-> amount,
     swap_for_y |-> swap_for_y, swap_mode |-> swap_mode]

\* get_swap_result(&mut pair, ...): returns the engine's answer and leaves
\* the pair it was handed on the bin where the walk ended.
get_swap_result(pair, eng) ==
    [ok |-> eng.ok, amount |-> eng.amount, fee |-> eng.fee,
     pair |-> IF eng.ok THEN [pair EXCEPT !.active_id = eng.active_id]
              ELSE pair]

Branch(log, calls, pair, ok, in_amount, out_amount, fee_amount) ==
    [log |-> log, engine_calls |-> calls, pair_after |-> pair, ok |-> ok,
     in_amount |-> in_amount, out_amount |-> out_amount,
     fee_amount |-> fee_amount]

\* Faulty variant: the requested amount goes to the engine without the input fee
\* taken off.
QuoteExactInGrossToEngine(amount, fee_in, fee_out, pair, bin_array, swap_for_y, eng) ==
    LET pre == compute_transfer_fee(fee_in, amount)
        call == EngineArgs(pair, bin_array, amount, swap_for_y, "ExactIn")
        swap == get_swap_result(pair, eng)
        post == compute_transfer_fee(fee_out, swap.amount)
    IN  IF Try("swap", ~swap.ok)
        THEN Branch(<< Entry("fee_in", ~pre.ok), Entry("swap", ~swap.ok) >>,
                  << call >>, swap.pair, FALSE, 0, 0, 0)
        ELSE Branch(<< Entry("fee_in", ~pre.ok), Entry("swap", ~swap.ok),
                     Entry("fee_out", ~post.ok) >>,
                  << call >>, swap.pair, post.ok, amount, post.amount, swap.fee)

\* Lines 117-134: SwapMode::ExactIn.
QuoteExactIn(amount, fee_in, fee_out, pair, bin_array, swap_for_y, eng) ==
    LET pre == compute_transfer_fee(fee_in, amount)
        call == EngineArgs(pair, bin_array, pre.amount, swap_for_y, "ExactIn")
        swap == get_swap_result(pair, eng)
        post == compute_transfer_fee(fee_out, swap.amount)
    IN  IF Try("fee_in", ~pre.ok)
        THEN Branch(<< Entry("fee_in", ~pre.ok) >>, << >>, pair, FALSE, 0, 0, 0)
        ELSE IF Try("swap", ~swap.ok)
        THEN Branch(<< Entry("fee_in", ~pre.ok), Entry("swap", ~swap.ok) >>,
                  << call >>, swap.pair, FALSE, 0, 0, 0)
        ELSE IF Try("fee_out", ~post.ok)
        THEN Branch(<< Entry("fee_in", ~pre.ok), Entry("swap", ~swap.ok),
                     Entry("fee_out", ~post.ok) >>,
                  << call >>, swap.pair, FALSE, 0, 0, 0)
        ELSE Branch(<< Entry("fee_in", ~pre.ok), Entry("swap", ~swap.ok),
                     Entry("fee_out", ~post.ok) >>,
                  << call >>, swap.pair, TRUE, amount, post.amount, swap.fee)

\* Faulty variant: the inverse input fee is applied to the requested amount before
\* the engine call, and the engine's amount_in is reported as it is.
QuoteExactOutInverseBeforeEngine(amount, fee_in, fee_out, pair, bin_array, swap_for_y, eng) ==
    LET gross_out == compute_transfer_amount_for_expected_output(fee_in, amount)
        call == EngineArgs(pair, bin_array, gross_out.amount, swap_for_y,
                           "ExactOut")
        swap == get_swap_result(pair, eng)
        net_out == compute_transfer_fee(fee_out, amount)
        done == gross_out.ok /\ swap.ok /\ net_out.ok
    IN  IF ~gross_out.ok
        THEN Branch(<< Entry("gross_out", TRUE) >>, << >>, pair, FALSE, 0, 0, 0)
        ELSE Branch(<< Entry("gross_out", FALSE), Entry("swap", ~swap.ok) >>
                     \o (IF swap.ok
                         THEN << Entry("gross_in", FALSE),
                                 Entry("fee_out", ~net_out.ok) >>
                         ELSE << >>),
                  << call >>, swap.pair, done,
                  IF done THEN swap.amount ELSE 0,
                  IF done THEN net_out.amount ELSE 0,
                  IF done THEN swap.fee ELSE 0)

\* Lines 135-159: SwapMode::ExactOut.
QuoteExactOut(amount, fee_in, fee_out, pair, bin_array, swap_for_y, eng) ==
    LET gross_out == compute_transfer_amount_for_expected_output(fee_out, amount)
        call == EngineArgs(pair, bin_array, gross_out.amount, swap_for_y,
                           "ExactOut")
        swap == get_swap_result(pair, eng)
        gross_in ==
            compute_transfer_amount_for_expected_output(fee_in, swap.amount)
        net_out == compute_transfer_fee(fee_out, amount)
    IN  IF Try("gross_out", ~gross_out.ok)
        THEN Branch(<< Entry("gross_out", ~gross_out.ok) >>, << >>, pair,
                  FALSE, 0, 0, 0)
        ELSE IF Try("swap", ~swap.ok)
        THEN Branch(<< Entry("gross_out", ~gross_out.ok),
                     Entry("swap", ~swap.ok) >>,
                  << call >>, swap.pair, FALSE, 0, 0, 0)
        ELSE IF Try("gross_in", ~gross_in.ok)
        THEN Branch(<< Entry("gross_out", ~gross_out.ok),
                     Entry("swap", ~swap.ok),
                     Entry("gross_in", ~gross_in.ok) >>,
                  << call >>, swap.pair, FALSE, 0, 0, 0)
        ELSE IF Try("fee_out", ~net_out.ok)
        THEN Branch(<< Entry("gross_out", ~gross_out.ok),
                     Entry("swap", ~swap.ok),
                     Entry("gross_in", ~gross_in.ok),
                     Entry("fee_out", ~net_out.ok) >>,
                  << call >>, swap.pair, FALSE, 0, 0, 0)
        ELSE Branch(<< Entry("gross_out", ~gross_out.ok),
                     Entry("swap", ~swap.ok),
                     Entry("gross_in", ~gross_in.ok),
                     Entry("fee_out", ~net_out.ok) >>,
                  << call >>, swap.pair, TRUE,
                  gross_in.amount, net_out.amount, swap.fee)

(***************************************************************************)
(* SarosDlmm::new and SarosDlmm::quote                                     *)
(***************************************************************************)
\* Lines 44-58: the pair account is fetched and unpacked once, here.
new(program_id, pool, account) ==
    [program_id |-> program_id, pool |-> pool, pair |-> account]

\* Line 78: TokenTransferFee::default().
DefaultTTF == [epoch_transfer_fee_x |-> NoFee, epoch_transfer_fee_y |-> NoFee]

\* Faulty variant: the Y-to-X branch keeps the X-to-Y order of the fee configs.
SelectFeesNoSwap(swap_for_y, pair, ttf) ==
    [mint_in |-> IF swap_for_y THEN pair.token_mint_x ELSE pair.token_mint_y,
     fee_in |-> ttf.epoch_transfer_fee_x,
     fee_out |-> ttf.epoch_transfer_fee_y]

\* Lines 102-114: (mint_in, epoch_transfer_fee_in, epoch_transfer_fee_out).
SelectFees(swap_for_y, pair, ttf) ==
    IF swap_for_y
    THEN [mint_in |-> pair.token_mint_x,
          fee_in |-> ttf.epoch_transfer_fee_x,
          fee_out |-> ttf.epoch_transfer_fee_y]
    ELSE [mint_in |-> pair.token_mint_y,
          fee_in |-> ttf.epoch_transfer_fee_y,
          fee_out |-> ttf.epoch_transfer_fee_x]

\* Faulty variant: the engine works on self.pair itself, not on a clone.
StoredPairShared(stored, clone) == clone

\* Lines 60 and 67: quote takes &self and hands the engine `self.pair.clone()`;
\* the stored pair after the call, given the clone the engine left behind.
StoredPairAfterQuote(stored, clone) == stored

Ok(in_amount, out_amount, fee_amount, fee_mint) ==
    [ok |-> TRUE, in_amount |-> in_amount, out_amount |-> out_amount,
     fee_amount |-> fee_amount, fee_mint |-> fee_mint]
Err(stage) == [ok |-> FALSE, stage |-> stage, kind |-> ErrorKind(stage)]

\* Lines 60-168: one quote call against the provider answers (bad, ttf, eng)
\* while the chain holds the pair account `chain`.  The value is what the
\* call did (addresses derived, stages run, engine calls) and returned.
quote(self, chain, params, bad, ttf, eng) ==
    LET pair == self.pair
        lower == get_bin_array_lower(bin_array_index(self.pair), self.pool,
                                     self.program_id)
        upper == get_bin_array_upper(bin_array_index(self.pair), self.pool,
                                     self.program_id)
        fetch == RunFetch(1, bad, lower, upper)
        swap_for_y == is_swap_for_y(params.input_mint, self.pair.token_mint_x)
        bin_array == merge(BinArrayAt(lower, "get_account_bin_lower", bad),
                           BinArrayAt(upper, "get_account_bin_upper", bad))
        sel == SelectFees(swap_for_y, self.pair, ttf)
        branch == IF params.swap_mode = "ExactIn"
                  THEN QuoteExactIn(params.amount, sel.fee_in, sel.fee_out,
                                    pair, bin_array, swap_for_y, eng)
                  ELSE QuoteExactOut(params.amount, sel.fee_in, sel.fee_out,
                                     pair, bin_array, swap_for_y, eng)
        base == [called |-> TRUE, params |-> params, bad |-> bad,
                 ttf |-> ttf, eng |-> eng, chain_pair |-> chain,
                 pair_read |-> self.pair,
                 bin_array_lower |-> lower, bin_array_upper |-> upper,
                 swap_for_y |-> swap_for_y, mint_in |-> sel.mint_in,
                 epoch_transfer_fee_in |-> sel.fee_in,
                 epoch_transfer_fee_out |-> sel.fee_out]
    IN  IF Aborted(fetch)
        THEN base @@ [selected |-> FALSE, log |-> fetch,
                      engine_calls |-> << >>, pair_after |-> pair,
                      result |-> Err(fetch[Len(fetch)].stage)]
        ELSE base @@ [selected |-> TRUE, log |-> fetch \o branch.log,
                      engine_calls |-> branch.engine_calls,
                      pair_after |-> branch.pair_after,
                      result |-> IF branch.ok
                                 THEN Ok(branch.in_amount, branch.out_amount,
                                         branch.fee_amount, sel.mint_in)
                                 ELSE Err(branch.log[Len(branch.log)].stage)]

(***************************************************************************)
(* Inputs                                                                  *)
(***************************************************************************)
Amounts == {0, 1, 500000, 1000000, MaxU64}
QuoteParamsSet ==
    [amount : Amounts, swap_mode : SwapModes,
     input_mint : Mints, output_mint : Mints]

BadSets == {b \in SUBSET FetchStageSet : Cardinality(b) <= MaxFailures}

\* No fee extension; 1% capped at 1000; 0.5% with a cap no amount reaches.
FeeConfigs == {NoFee, FeeCfg(100, 1000), FeeCfg(50, MaxU64)}
TTFs == [epoch_transfer_fee_x : FeeConfigs, epoch_transfer_fee_y : FeeConfigs]

EngineAmounts == {0, 502512, MaxU64}
AmmFees == {0, 25}
EngineResponses ==
    {NoAnswer} \cup
    {Answer(a, f, id) : a \in EngineAmounts, f \in AmmFees, id \in ActiveIds}

NoCall == [called |-> FALSE]
NoSelection == [valid |-> FALSE]

\* The provider answers that a call consumes: the fee resolution yields a
\* TokenTransferFee only when every stage before it succeeded, and the
\* engine answers only when it is called.
TtfResolved(self, bad) ==
    ~Aborted(RunFetch(1, bad,
                      get_bin_array_lower(bin_array_index(self.pair),
                                          self.pool, self.program_id),
                      get_bin_array_upper(bin_array_index(self.pair),
                                          self.pool, self.program_id)))
EngineCalled(self, chain, params, bad, ttf) ==
    Len(quote(self, chain, params, bad, ttf, NoAnswer).engine_calls) > 0

(***************************************************************************)
(* Actions                                                                 *)
(***************************************************************************)
Init ==
    /\ chainPair \in {PairOf(a) : a \in ActiveIds}
    /\ dlmm = new("saros", "PAIR", chainPair)
    /\ built = dlmm
    /\ last = NoCall
    /\ prev = NoSelection
    /\ feeArgs = [cfg |-> NoFee, net |-> 0]
    /\ feeRes = [done |-> FALSE]

\* A quote call with the request and the provider answers drawn from the
\* given sets; the caller holds one returned value at a time.
QuoteOver(P, B, T, E) ==
    /\ last = NoCall
    /\ \E params \in P, bad \in B :
         \E ttf \in (IF TtfResolved(dlmm, bad) THEN T ELSE {DefaultTTF}) :
           \E eng \in (IF EngineCalled(dlmm, chainPair, params, bad, ttf)
                       THEN E ELSE {NoAnswer}) :
             /\ last' = quote(dlmm, chainPair, params, bad, ttf, eng)
             /\ dlmm' = [dlmm EXCEPT
                           !.pair = StoredPairAfterQuote(dlmm.pair,
                                                         last'.pair_after)]
    /\ UNCHANGED <<built, chainPair, prev, feeArgs, feeRes>>

Quote == QuoteOver(QuoteParamsSet, BadSets, TTFs, EngineResponses)

\* Lines 182-194: the caller is done with the returned value.
DropQuote ==
    /\ last # NoCall
    /\ last' = NoCall
    /\ UNCHANGED <<dlmm, built, chainPair, prev, feeArgs, feeRes>>

\* Another party swaps against the pool: the pair account on chain moves to
\* another active bin.
ChainUpdate ==
    /\ \E a \in ActiveIds \ {chainPair.active_id} : chainPair' = PairOf(a)
    /\ UNCHANGED <<dlmm, built, last, prev, feeArgs, feeRes>>

Next == Quote \/ DropQuote \/ ChainUpdate

Spec == Init /\ [][Next]_vars

(***************************************************************************)
(* Direction symmetry: two consecutive quote calls are compared            *)
(***************************************************************************)
\* What a call selected, kept when the caller drops the returned value.
Selection(call) ==
    IF call.selected
    THEN [valid |-> TRUE, params |-> call.params, pair |-> call.pair_read,
          ttf |-> call.ttf, swap_for_y |-> call.swap_for_y,
          fee_in |-> call.epoch_transfer_fee_in,
          fee_out |-> call.epoch_transfer_fee_out]
    ELSE NoSelection

SymParams ==
    [amount : {1000000}, swap_mode : SwapModes,
     input_mint : Mints, output_mint : Mints]

QuoteSym == QuoteOver(SymParams, {{}}, TTFs, {Answer(502512, 25, 0)})

DropKeep ==
    /\ last # NoCall
    /\ prev' = Selection(last)
    /\ last' = NoCall
    /\ UNCHANGED <<dlmm, built, chainPair, feeArgs, feeRes>>

NextSym == QuoteSym \/ DropKeep

SpecSym == Init /\ [][NextSym]_vars

(***************************************************************************)
(* Fee round trip: the inverse, then the fee on its result                 *)
(***************************************************************************)
FeeRates == {0, 1, 50, 100, 2500, 5000}
FeeCaps == {0, 1, 10, 1000, MaxU64}
AllFeeConfigs == {NoFee} \cup {FeeCfg(b, c) : b \in FeeRates, c \in FeeCaps}
Nets == (0..MaxNet) \cup {500000, 1000000, MaxU64 - 1000, MaxU64}

InitFee ==
    /\ feeArgs \in [cfg : AllFeeConfigs, net : Nets]
    /\ feeRes = [done |-> FALSE]
    /\ chainPair = PairOf(0)
    /\ dlmm = new("saros", "PAIR", chainPair)
    /\ built = dlmm
    /\ last = NoCall
    /\ prev = NoSelection

RoundTrip ==
    /\ ~feeRes.done
    /\ LET gross == compute_transfer_amount_for_expected_output(
                        feeArgs.cfg, feeArgs.net)
       IN  feeRes' = [done |-> TRUE, gross |-> gross,
                      back |-> IF gross.ok
                               THEN compute_transfer_fee(feeArgs.cfg,
                                                         gross.amount)
                               ELSE FeeErr]
    /\ UNCHANGED <<dlmm, built, chainPair, last, prev, feeArgs>>

NextFee == RoundTrip

SpecFee == InitFee /\ [][NextFee]_vars

(***************************************************************************)
(* Properties                                                              *)
(***************************************************************************)
Succeeded(mode) ==
    last.called /\ last.result.ok /\ last.params.swap_mode = mode

Abs(n) == IF n < 0 THEN -n ELSE n

\* The request names the pair's two mints, one as input, one as output.
ValidMints(params, pair) ==
    /\ params.input_mint \in {pair.token_mint_x, pair.token_mint_y}
    /\ params.output_mint \in {pair.token_mint_x, pair.token_mint_y}
    /\ params.input_mint # params.output_mint

\* C1: a successful ExactIn quote calls the engine exactly once, with the
\* requested amount less the input-side transfer fee; out_amount is the
\* engine's output less the output-side transfer fee, in_amount is the
\* requested amount, fee_amount is the engine's AMM fee.
C1_ExactInFeeOrder ==
    Succeeded("ExactIn") =>
        LET A == last.params.amount
            Fin == last.epoch_transfer_fee_in
            Fout == last.epoch_transfer_fee_out
        IN  /\ Len(last.engine_calls) = 1
            /\ last.engine_calls[1].swap_mode = "ExactIn"
            /\ last.engine_calls[1].amount = compute_transfer_fee(Fin, A).amount
            /\ last.result.out_amount =
                   compute_transfer_fee(Fout, last.eng.amount).amount
            /\ last.result.in_amount = A
            /\ last.result.fee_amount = last.eng.fee

\* 1_000_000 in with a 1% fee capped at 1000 reaches the engine as 999_000,
\* and the output fee is taken off what the engine returned.
C1_Witness ==
    /\ Succeeded("ExactIn")
    /\ last.params.amount = 1000000
    /\ last.epoch_transfer_fee_in = FeeCfg(100, 1000)
    /\ last.engine_calls[1].amount = 999000
    /\ last.eng.fee = 25
    /\ last.result.out_amount < last.eng.amount

\* C2: a successful ExactOut quote calls the engine exactly once, in
\* ExactOut mode, with the gross output the output-side fee requires;
\* in_amount is the gross input the input-side fee requires for the engine's
\* amount_in, fee_amount is the engine's AMM fee.
C2_ExactOutFeeOrder ==
    Succeeded("ExactOut") =>
        LET A == last.params.amount
            Fin == last.epoch_transfer_fee_in
            Fout == last.epoch_transfer_fee_out
        IN  /\ Len(last.engine_calls) = 1
            /\ last.engine_calls[1].swap_mode = "ExactOut"
            /\ last.engine_calls[1].amount =
                   compute_transfer_amount_for_expected_output(Fout, A).amount
            /\ last.result.in_amount =
                   compute_transfer_amount_for_expected_output(
                       Fin, last.eng.amount).amount
            /\ last.result.fee_amount = last.eng.fee

\* 500_000 out with a 0.5% output fee asks the engine for 502_512; the
\* engine's 502_512 in, under a 1% input fee capped at 1000, costs 503_512.
C2_Witness ==
    /\ Succeeded("ExactOut")
    /\ last.params.amount = 500000
    /\ last.epoch_transfer_fee_out = FeeCfg(50, MaxU64)
    /\ last.epoch_transfer_fee_in = FeeCfg(100, 1000)
    /\ last.engine_calls[1].amount = 502512
    /\ last.eng.amount = 502512
    /\ last.result.in_amount = 503512
    /\ last.eng.fee = 25

\* C3: a successful ExactOut quote whose output-side fee does not saturate
\* its cap reports an out_amount within 1 unit of the requested net output
\* (stated for requests that name the pair's two mints).
C3_ExactOutReportsRequested ==
    (Succeeded("ExactOut")
        /\ ValidMints(last.params, last.pair_read)
        /\ ~CapSaturated(last.epoch_transfer_fee_out, last.params.amount))
    => Abs(last.result.out_amount - last.params.amount) <= 1

\* C4: quote returns a Quote only for two different mints of the pair, and
\* fails with InvalidInputError for every other request.
C4_MintValidation ==
    last.called =>
        /\ last.result.ok => ValidMints(last.params, last.pair_read)
        /\ ~ValidMints(last.params, last.pair_read) =>
               /\ ~last.result.ok
               /\ last.result.kind = "InvalidInputError"

\* The stage's answer as the provider (or the engine) gave it.
Answered(stage, call) ==
    IF stage = "swap" THEN call.eng.ok ELSE stage \notin call.bad

\* C5: the stages run in the code's order, each at most once; the first
\* failed stage ends the call with that stage's error and nothing runs after
\* it (the engine is called only when every stage before it succeeded); a
\* Quote is returned only when every stage ran and succeeded.
C5_FailFast ==
    last.called =>
        LET log == last.log
            order == StageOrder(last.params.swap_mode)
            n == Len(log)
        IN  /\ 1 <= n /\ n <= Len(order)
            /\ \A i \in 1..n : log[i].stage = order[i]
            /\ \A i \in 1..(n - 1) : log[i].ok
            /\ \A i \in 1..n :
                 log[i].stage \in FetchStageSet \cup {"swap"} =>
                     (log[i].ok <=> Answered(log[i].stage, last))
            /\ Len(last.engine_calls) =
                   Cardinality({i \in 1..n : log[i].stage = "swap"})
            /\ IF log[n].ok
               THEN n = Len(order) /\ last.result.ok
               ELSE /\ ~last.result.ok
                    /\ last.result.stage = log[n].stage
                    /\ last.result.kind = ErrorKind(log[n].stage)

\* The fee resolution fails: ten stages succeeded before it, the engine is
\* never called and the call returns the resolution's error.
C5_Witness ==
    /\ last.called
    /\ ~last.result.ok
    /\ last.result.stage = "token_transfer_fee"
    /\ Len(last.log) = 11
    /\ last.engine_calls = << >>

\* C6: the pair a quote works with (bin-array addresses, mints, the pair
\* handed to the engine) is the pair account as the chain holds it during
\* that call (stated for successful quotes of the pair's two mints).
C6_QuoteUsesFreshPair ==
    (last.called /\ last.result.ok
        /\ ValidMints(last.params, last.pair_read)) =>
        /\ last.pair_read = last.chain_pair
        /\ last.bin_array_lower.index = bin_array_index(last.chain_pair)
        /\ \A i \in 1..Len(last.engine_calls) :
               last.engine_calls[i].pair = last.chain_pair

\* C7: the fee_mint of a returned Quote is the request's input_mint.
C7_FeeMintIsInputMint ==
    (last.called /\ last.result.ok) =>
        last.result.fee_mint = last.params.input_mint

Mirrored(a, b) ==
    /\ a.input_mint = b.output_mint
    /\ a.output_mint = b.input_mint
    /\ a.amount = b.amount
    /\ a.swap_mode = b.swap_mode

\* Two consecutive calls, one X-to-Y and one Y-to-X, that differ only by
\* the exchange of the two mints, on one pair and one resolved fee.
MirroredCalls ==
    /\ last.called /\ last.selected /\ prev.valid
    /\ last.pair_read = prev.pair
    /\ last.ttf = prev.ttf
    /\ Mirrored(last.params, prev.params)
    /\ {last.params.input_mint, last.params.output_mint}
           = {last.pair_read.token_mint_x, last.pair_read.token_mint_y}
    /\ last.params.input_mint # last.params.output_mint

\* C8: of two such calls one swaps for Y and the other does not, each
\* selects the other's fee configs exchanged, and the X-to-Y call selects
\* (epoch_transfer_fee_x, epoch_transfer_fee_y).
C8_DirectionSymmetry ==
    MirroredCalls =>
        /\ last.swap_for_y # prev.swap_for_y
        /\ last.swap_for_y
               = (last.params.input_mint = last.pair_read.token_mint_x)
        /\ last.epoch_transfer_fee_in = prev.fee_out
        /\ last.epoch_transfer_fee_out = prev.fee_in
        /\ last.swap_for_y =>
               /\ last.epoch_transfer_fee_in = last.ttf.epoch_transfer_fee_x
               /\ last.epoch_transfer_fee_out = last.ttf.epoch_transfer_fee_y
        /\ ~last.swap_for_y =>
               /\ last.epoch_transfer_fee_in = last.ttf.epoch_transfer_fee_y
               /\ last.epoch_transfer_fee_out = last.ttf.epoch_transfer_fee_x

\* A Y-to-X call right after the X-to-Y call, the two mints' fees differing.
C8_Witness ==
    /\ MirroredCalls
    /\ ~last.swap_for_y
    /\ last.ttf.epoch_transfer_fee_x = FeeCfg(100, 1000)
    /\ last.ttf.epoch_transfer_fee_y = FeeCfg(50, MaxU64)
    /\ last.epoch_transfer_fee_in = FeeCfg(50, MaxU64)

\* C9: when the cap is not saturated, the fee on the inverse's gross amount
\* is min(ceil(gross * rate / 10000), cap), leaves the net amount within 1
\* unit, and is gross minus what it leaves; when the naive inverse's fee
\* exceeds the cap, gross = net + cap.
C9_FeeRoundTrip ==
    (feeRes.done /\ feeRes.gross.ok) =>
        LET cfg == feeArgs.cfg
            net == feeArgs.net
            gross == feeRes.gross.amount
            back == feeRes.back
        IN  IF CapSaturated(cfg, net)
            THEN gross = net + cfg.cap
            ELSE /\ back.ok
                 /\ back.fee = Min(RateFee(cfg, gross), cfg.cap)
                 /\ Abs(back.amount - net) <= 1
                 /\ back.fee = gross - back.amount

\* 500_000 net at 0.5%, cap out of reach: gross 502_512, and the fee on it
\* (2513) leaves 499_999, one unit short.
C9_Witness ==
    /\ feeRes.done /\ feeRes.gross.ok
    /\ feeArgs.net = 500000
    /\ feeArgs.cfg = FeeCfg(50, MaxU64)
    /\ ~CapSaturated(feeArgs.cfg, feeArgs.net)
    /\ feeRes.gross.amount = 502512
    /\ feeRes.back.fee = 2513
    /\ feeRes.back.amount = 499999

\* C10: the stored program_id, pool and pair stay what SarosDlmm::new made
\* them, and a call does and returns what the first call after construction
\* would for the same request and provider answers.
C10_QuoteLeavesStoredState ==
    /\ dlmm = built
    /\ last.called =>
           LET fresh == quote(built, last.chain_pair, last.params, last.bad,
                              last.ttf, last.eng)
           IN  /\ last.result = fresh.result
               /\ last.engine_calls = fresh.engine_calls

\* The engine moved the pair it was handed to another bin; the stored pair
\* is still on the bin read at construction.
C10_Witness ==
    /\ last.called /\ last.result.ok
    /\ last.pair_after # built.pair
    /\ dlmm.pair = built.pair

\* Reachability of the fee-computation failures: before and after the engine.
FeeFailsBeforeEngine ==
    last.called /\ ~last.result.ok /\ last.result.stage = "gross_out"
        /\ last.engine_calls = << >>
FeeFailsAfterEngine ==
    last.called /\ ~last.result.ok /\ last.result.stage = "gross_in"
        /\ Len(last.engine_calls) = 1

====
